---- MODULE Spec2Model ----
(***************************************************************************)
(* SAFE (Spatial Analysis of Functional Enrichment) scoring of tmap:       *)
(* src/tmap/netx/SAFE.py and the command-line driver                       *)
(* src/tmap/api/SAFE_analysis.py.                                          *)
(*                                                                         *)
(* Numbers.  Every numeric cell of a table is an exact rational <<n, d>>   *)
(* (d > 0, lowest terms).  A numpy float that may be not-a-number or       *)
(* infinite is a record [k, q] with k in {"num","nan","inf","ninf"}.  A    *)
(* SAFE score log10(p)/log10(b) is kept as the pair of its arguments,      *)
(* [k, p, b]; comparisons on it are decided from p and b.                  *)
(***************************************************************************)
EXTENDS Integers, Sequences, FiniteSets, TLC

(***************************************************************************)
(* Bounds of the model.                                                    *)
(***************************************************************************)
\* largest n_iter a caller passes
MaxIter == 2
\* largest number of SAFE_batch calls on one graph (SpecHistory)
MaxCalls == 2

(***************************************************************************)
(* Exact rationals.                                                        *)
(***************************************************************************)
RECURSIVE GCD(_, _)
GCD(a, b) == IF b = 0 THEN a ELSE GCD(b, a % b)

Abs(x) == IF x < 0 THEN -x ELSE x

RNorm(n, d) ==
    LET g == GCD(Abs(n), Abs(d))
        s == IF d < 0 THEN -1 ELSE 1
    IN  <<(s * n) \div g, (s * d) \div g>>

RInt(i) == <<i, 1>>
RAdd(x, y) == RNorm(x[1] * y[2] + y[1] * x[2], x[2] * y[2])
RMul(x, y) == RNorm(x[1] * y[1], x[2] * y[2])
RDivInt(x, i) == RNorm(x[1], x[2] * i)
RLe(x, y) == x[1] * y[2] <= y[1] * x[2]
RLt(x, y) == x[1] * y[2] < y[1] * x[2]
RMin(x, y) == IF RLe(x, y) THEN x ELSE y

RECURSIVE RSum(_, _)
\* sum of f[i] over the finite set S
RSum(f, S) ==
    IF S = {} THEN RInt(0)
    ELSE LET i == CHOOSE j \in S : TRUE
         IN  RAdd(f[i], RSum(f, S \ {i}))

(***************************************************************************)
(* numpy floats: a finite rational, nan, +inf or -inf.                     *)
(***************************************************************************)
FNum(q) == [k |-> "num", q |-> q]
FNaN == [k |-> "nan", q |-> RInt(0)]
FInf == [k |-> "inf", q |-> RInt(0)]
FNegInf == [k |-> "ninf", q |-> RInt(0)]

\* numpy true division x / y of two finite numbers: no exception, 0/0 is nan
\* and x/0 is +-inf (a RuntimeWarning only)
NumpyDiv(x, y) ==
    IF y[1] = 0
    THEN IF x[1] = 0 THEN FNaN ELSE IF x[1] > 0 THEN FInf ELSE FNegInf
    ELSE FNum(RNorm(x[1] * y[2], x[2] * y[1]))

\* x >= y for a float x and a finite y: every comparison with nan is False
FGeq(x, y) ==
    CASE x.k = "nan" -> FALSE
      [] x.k = "inf" -> TRUE
      [] x.k = "ninf" -> FALSE
      [] OTHER -> RLe(y, x.q)

(***************************************************************************)
(* Tables (pandas.DataFrame): row labels, column labels, cells by          *)
(* position.                                                               *)
(***************************************************************************)
Frame(index, columns, v) == [index |-> index, columns |-> columns, v |-> v]
NRows(df) == Len(df.index)
NCols(df) == Len(df.columns)
Shape(df) == <<NRows(df), NCols(df)>>
Cells(df) == (1..NRows(df)) \X (1..NCols(df))
Transpose(df) ==
    Frame(df.columns, df.index,
          [rc \in (1..NCols(df)) \X (1..NRows(df)) |-> df.v[<<rc[2], rc[1]>>]])
Range(s) == {s[i] : i \in 1..Len(s)}
PosOf(s, x) == CHOOSE i \in 1..Len(s) : s[i] = x

Perms(n) == {p \in [1..n -> 1..n] : \A i, j \in 1..n : p[i] = p[j] => i = j}

(***************************************************************************)
(* The graph (tmap.tda.Graph, an external collaborator): a fixed small     *)
(* graph.  Sample s4 belongs to no node.                                   *)
(***************************************************************************)
\* graph.nodes, in order
nodes == <<"A", "B", "C">>
\* the rows of graph.rawX, in order
samples == <<"s1", "s2", "s3", "s4">>
\* graph.nodes[n]: the member samples of node n
node_members ==
    [n \in Range(nodes) |->
        CASE n = "A" -> {"s1", "s2"}
          [] n = "B" -> {"s2", "s3"}
          [] OTHER -> {"s3"}]
\* graph.get_neighborhoods(nr_threshold)
get_neighborhoods ==
    [n \in Range(nodes) |->
        CASE n = "A" -> {"A", "B"}
          [] n = "B" -> {"A", "B", "C"}
          [] OTHER -> {"B", "C"}]
\* a neighborhoods mapping a caller may pass instead
own_neighborhoods == [n \in Range(nodes) |-> {n}]

\* graph.node2sample(node_ids): the samples of any of the nodes
node2sample(ns) == UNION {node_members[n] : n \in ns}

\* graph.transform_sn(data, type='s2n'): each node's value is the mean of its
\* member samples' values
transform_sn(data) ==
    Frame(nodes, data.columns,
          [rc \in (1..Len(nodes)) \X (1..NCols(data)) |->
              LET ms == node_members[nodes[rc[1]]]
                  col == [s \in ms |-> data.v[<<PosOf(samples, s), rc[2]>>]]
              IN  RDivInt(RSum(col, ms), Cardinality(ms))])

\* graph.neighborhood_score(node_data, neighborhoods, mode='sum'): each node's
\* score is the sum of the node values over its neighborhood
neighborhood_score(node_data, neighborhoods) ==
    Frame(nodes, node_data.columns,
          [rc \in (1..Len(nodes)) \X (1..NCols(node_data)) |->
              LET nb == neighborhoods[nodes[rc[1]]]
                  col == [m \in nb |-> node_data.v[<<PosOf(nodes, m), rc[2]>>]]
              IN  RSum(col, nb)])

\* tmap.tda.utils.verify_metadata(graph, metadata, by): the row count must be
\* that of the nodes (by node) or of the samples (by sample)
verify_metadata_ok(metadata, by) ==
    NRows(metadata) = (IF by = "node" THEN Len(nodes) ELSE Len(samples))

(***************************************************************************)
(* _permutation (SAFE.py 9-32).  perms[c] is the permutation                *)
(* np.random.permutation draws for column c.                               *)
(***************************************************************************)
\* a slip: every row of a column takes the column's first drawn row
PermutedColumnBroadcast(data, c, perm) ==
    [r \in 1..NRows(data) |-> data.v[<<perm[1], c>>]]

\* np.random.permutation(col) for column c and the drawn permutation perm
PermutedColumn(data, c, perm) ==
    [r \in 1..NRows(data) |-> data.v[<<perm[r], c>>]]

\* the table of the given columns, labelled as data is
WithColumns(data, cols) ==
    Frame(data.index, data.columns,
          [rc \in Cells(data) |-> cols[rc[2]][rc[1]]])

\* p_data.apply(lambda col: np.random.permutation(col), axis=0): perms[c] is
\* the permutation drawn for column c
ApplyPermutation(data, perms) ==
    WithColumns(data, [c \in 1..NCols(data) |-> PermutedColumn(data, c, perms[c])])

\* the permutations np.random.permutation can draw, by the number of rows of
\* the table (the nodes' or the samples')
RECURSIVE PermsUpTo(_)
PermsUpTo(n) == IF n = 0 THEN <<>> ELSE Append(PermsUpTo(n - 1), Perms(n))
RowPerms == PermsUpTo(Len(samples))

\* the draws of the first c columns: every column is permuted by a draw of its
\* own
RECURSIVE ColumnDraws(_, _)
ColumnDraws(data, c) ==
    IF c = 0 THEN {<<>>}
    ELSE {Append(cols, col) :
             cols \in ColumnDraws(data, c - 1),
             col \in {PermutedColumn(data, c, perm) : perm \in RowPerms[NRows(data)]}}

\* the tables the apply of one trial can produce
PermutedTables(data) ==
    {WithColumns(data, cols) : cols \in ColumnDraws(data, NCols(data))}

\* lines 24 and 29-32: the permuted table is returned as it is (node), or
\* passed through graph.transform_sn (sample)
AfterPermute(permuted, shuffle_by) ==
    IF shuffle_by = "node" THEN permuted ELSE transform_sn(permuted)

\* the table the function returns
permutation(data, shuffle_by, perms) ==
    AfterPermute(ApplyPermutation(data, perms), shuffle_by)

(***************************************************************************)
(* convertor (SAFE.py 35-55).                                              *)
(***************************************************************************)
\* min_p_value = 1.0 / (n_iter + 1.0)
min_p_value(n_iter) == RNorm(1, n_iter + 1)

\* neighborhood_count_df.div(n_iter)
DivCount(count, n_iter) == NumpyDiv(RInt(count), RInt(n_iter))

\* a slip: the p-values are not clamped
ClipMinMissing(p, n_iter) == p

\* p_value_df.where(p_value_df >= min_p_value, min_p_value)
ClipMin(p, n_iter) ==
    IF FGeq(p, min_p_value(n_iter)) THEN p ELSE FNum(min_p_value(n_iter))

\* order of two p-values that are finite or +inf
PLe(x, y) == y.k = "inf" \/ (x.k = "num" /\ y.k = "num" /\ RLe(x.q, y.q))

RECURSIVE Insert(_, _)
Insert(x, s) ==
    IF s = <<>> THEN <<x>>
    ELSE IF PLe(x, s[1]) THEN <<x>> \o s
    ELSE <<s[1]>> \o Insert(x, Tail(s))

RECURSIVE SortAsc(_)
SortAsc(s) == IF s = <<>> THEN <<>> ELSE Insert(s[1], SortAsc(Tail(s)))

\* p * m / rank
BHRaw(p, m, rank) ==
    IF p.k = "inf" THEN p ELSE FNum(RNorm(p.q[1] * m, p.q[2] * rank))

\* multipletests(col, method='fdr_bh')[1] of statsmodels: the sorted p-values
\* scaled by m/rank, the running minimum from the largest down, values above 1
\* set to 1, put back in the input's order
fdr_bh_sorted(col, sorted) ==
    LET m == Len(col)
        raw == [r \in 1..m |-> BHRaw(sorted[r], m, r)]
        cummin == [r \in 1..m |->
                      CHOOSE x \in {raw[s] : s \in r..m} :
                          \A s \in r..m : PLe(x, raw[s])]
        clipped == [r \in 1..m |->
                      IF PLe(cummin[r], FNum(RInt(1))) THEN cummin[r]
                      ELSE FNum(RInt(1))]
    IN  [i \in 1..m |-> clipped[CHOOSE r \in 1..m : sorted[r] = col[i]]]

fdr_bh(col) == fdr_bh_sorted(col, SortAsc(col))

\* np.log10(p) / np.log10(min_p_value) for a p in (0, 1]: with min_p_value = 1
\* the divisor is 0.0, and 0/0 is nan, a negative number over 0.0 is -inf
LogRatio(p, b) ==
    IF b = RInt(1)
    THEN IF p.q = RInt(1) THEN [k |-> "nan", p |-> p.q, b |-> b]
         ELSE [k |-> "ninf", p |-> p.q, b |-> b]
    ELSE [k |-> "num", p |-> p.q, b |-> b]

\* a score log10(p)/log10(b) with 0 < b < 1 against 0 and 1: log10 is
\* increasing and log10(b) < 0, so the score is >= 0 iff p <= 1, <= 1 iff
\* p >= b, and 1 iff p = b
ScoreAtLeastZero(s) == s.k = "num" /\ RLe(s.p, RInt(1))
ScoreAtMostOne(s) == s.k = "num" /\ RLe(s.b, s.p)
ScoreIsOne(s) == s.k = "num" /\ s.p = s.b
ScoreIsZero(s) == s.k = "num" /\ s.p = RInt(1)

\* the corrected p-values of a count table, column by column
CorrectedP(counts, n_iter) ==
    LET col(c) == [r \in 1..NRows(counts) |->
                      ClipMin(DivCount(counts.v[<<r, c>>], n_iter), n_iter)]
        bh == [c \in 1..NCols(counts) |-> fdr_bh(col(c))]
    IN  Frame(counts.index, counts.columns,
              [rc \in Cells(counts) |-> bh[rc[2]][rc[1]]])

convertor(counts, n_iter) ==
    LET p == CorrectedP(counts, n_iter)
    IN  Frame(counts.index, counts.columns,
              [rc \in Cells(counts) |-> LogRatio(p.v[rc], min_p_value(n_iter))])

(***************************************************************************)
(* Inputs.                                                                 *)
(***************************************************************************)
Col3(a, b, c) == [r \in 1..3 |-> IF r = 1 THEN a ELSE IF r = 2 THEN b ELSE c]

\* node-space metadata: one row per node
MetaNode ==
    Frame(nodes, <<"f1", "f2">>,
          [rc \in (1..3) \X (1..2) |->
              RInt(IF rc[2] = 1 THEN Col3(1, 0, 0)[rc[1]] ELSE Col3(0, 0, 1)[rc[1]])])
\* sample-space metadata: one row per sample
MetaSample ==
    Frame(samples, <<"f1", "f2">>,
          [rc \in (1..4) \X (1..2) |->
              RInt(IF rc[2] = 1 THEN (IF rc[1] = 1 THEN 1 ELSE 0)
                   ELSE (IF rc[1] = 3 THEN 1 ELSE 0))])
\* node-space metadata with one feature, the same on every node
MetaNode1 ==
    Frame(nodes, <<"f1">>, [rc \in (1..3) \X (1..1) |-> RInt(1)])

Modes == {"enrich", "decline", "both"}
\* the modes a caller may pass: the three valid ones and one that is not
CallerModes == Modes \cup {"other"}

EmptyFrame == Frame(<<>>, <<>>, <<>>)
NoArgs == [metadata |-> EmptyFrame, n_iter |-> 0, shuffle_by |-> "node",
           mode |-> "enrich", neighborhoods_given |-> FALSE]

(***************************************************************************)
(* State.                                                                  *)
(***************************************************************************)
VARIABLES
    pc,            \* position in SAFE_batch / _SAFE
    calls,         \* SAFE_batch calls made so far
    args,          \* the arguments of the running call
    ops,           \* collaborator operations the running call has performed
    neighborhoods, \* SAFE_batch's and _SAFE's neighborhoods
    data,          \* _SAFE's data (the verified raw metadata)
    node_data,     \* _SAFE's node_data
    neighborhood_scores,      \* the observed scores
    neighborhood_enrichments, \* count matrix, cells by position
    neighborhood_decline,     \* count matrix, cells by position
    trials,        \* iterations of the permutation loop completed
    equal_trials,  \* per cell, the trials whose permuted score equalled the observed
    p_raw,         \* the last trial's permuted table before transform_sn
    p_data,        \* the last trial's _permutation result
    result,        \* what the call returned
    error,         \* the exception the call raised, "" if none
    heap,          \* the params dicts allocated so far
    history,       \* graph._SAFE: references into heap, in order of appending
    sig,           \* outcome of the last get_significant_nodes / get_SAFE_summary
    sample_metadata, \* the caller's samples x features table
    cli            \* the command-line run of SAFE_analysis.py

batch_vars == <<pc, calls, args, ops, neighborhoods, data, node_data,
                neighborhood_scores, neighborhood_enrichments,
                neighborhood_decline, trials, equal_trials, p_raw, p_data,
                result, error>>
graph_vars == <<heap, history>>
caller_vars == <<sig, sample_metadata, cli>>
vars == <<batch_vars, graph_vars, caller_vars>>

NoSig == [fn |-> "", safe_scores |-> EmptyFrame, err |-> "", n_iter_arg |-> -1, n_iter |-> -1,
          read_history |-> FALSE, min_p |-> RInt(0),
          detail |-> [centroides |-> <<>>, nodes |-> <<>>, summary |-> <<>>]]

\* no command-line run
NoCli == [pc |-> "", rows |-> <<>>, mode |-> "", raw |-> FALSE, logged |-> FALSE,
          invoked |-> {}, written |-> {}, err |-> ""]

InitBatch ==
    /\ pc = "idle"
    /\ calls = 0
    /\ args = NoArgs
    /\ ops = {}
    /\ neighborhoods = <<>>
    /\ data = EmptyFrame
    /\ node_data = EmptyFrame
    /\ neighborhood_scores = EmptyFrame
    /\ neighborhood_enrichments = <<>>
    /\ neighborhood_decline = <<>>
    /\ trials = 0
    /\ equal_trials = <<>>
    /\ p_raw = EmptyFrame
    /\ p_data = EmptyFrame
    /\ result = <<>>
    /\ error = ""

Init ==
    /\ InitBatch
    /\ heap = <<>>
    /\ history = <<>>
    /\ sig = NoSig
    /\ sample_metadata = MetaSample
    /\ cli = NoCli

(***************************************************************************)
(* SAFE_batch (SAFE.py 118-171) and _SAFE (SAFE.py 58-115), step by step.  *)
(***************************************************************************)
\* a caller enters SAFE_batch
StartCall(md, n, sb, m, given) ==
    /\ pc' = "neighborhoods"
    /\ calls' = calls + 1
    /\ args' = [metadata |-> md, n_iter |-> n, shuffle_by |-> sb, mode |-> m,
                neighborhoods_given |-> given]
    /\ ops' = {}
    /\ neighborhoods' = <<>>
    /\ data' = EmptyFrame
    /\ node_data' = EmptyFrame
    /\ neighborhood_scores' = EmptyFrame
    /\ neighborhood_enrichments' = <<>>
    /\ neighborhood_decline' = <<>>
    /\ trials' = 0
    /\ equal_trials' = <<>>
    /\ p_raw' = EmptyFrame
    /\ p_data' = EmptyFrame
    /\ result' = <<>>
    /\ error' = ""
    /\ sig' = NoSig
    /\ UNCHANGED <<graph_vars, sample_metadata, cli>>

\* the first call on a fresh graph, with any arguments
Call ==
    /\ pc = "idle"
    /\ calls = 0
    /\ \E md \in {MetaNode, MetaSample}, n \in 0..MaxIter,
          sb \in {"node", "sample"}, m \in CallerModes, given \in BOOLEAN :
          StartCall(md, n, sb, m, given)

\* SAFE_batch line 138
LookupNeighborhoods ==
    /\ pc = "neighborhoods"
    /\ IF args.neighborhoods_given
       THEN /\ neighborhoods' = own_neighborhoods
            /\ ops' = ops
       ELSE /\ neighborhoods' = get_neighborhoods
            /\ ops' = ops \cup {"get_neighborhoods"}
    /\ pc' = "verify"
    /\ UNCHANGED <<calls, args, data, node_data, neighborhood_scores,
                   neighborhood_enrichments, neighborhood_decline, trials,
                   equal_trials, p_raw, p_data, result, error, graph_vars, caller_vars>>

\* SAFE_batch lines 140-143
VerifyMetadata ==
    /\ pc = "verify"
    /\ ops' = ops \cup {"verify_metadata"}
    /\ IF verify_metadata_ok(args.metadata, args.shuffle_by)
       THEN /\ data' = args.metadata
            /\ pc' = "safe_entry"
            /\ error' = error
       ELSE /\ data' = data
            /\ pc' = "raised"
            /\ error' = "ShapeMismatch"
    /\ UNCHANGED <<calls, args, neighborhoods, node_data, neighborhood_scores,
                   neighborhood_enrichments, neighborhood_decline, trials,
                   equal_trials, p_raw, p_data, result, graph_vars, caller_vars>>

\* _mode not in ['enrich', 'decline', 'both']
InvalidMode(m) == m \notin Modes

\* _SAFE lines 67-68, reached through the call of SAFE_batch line 145
SafeEntry ==
    /\ pc = "safe_entry"
    /\ IF InvalidMode(args.mode)
       THEN /\ pc' = "raised"
            /\ error' = "SyntaxError"
       ELSE /\ pc' = "observe"
            /\ error' = error
    /\ UNCHANGED <<calls, args, ops, neighborhoods, data, node_data,
                   neighborhood_scores, neighborhood_enrichments,
                   neighborhood_decline, trials, equal_trials, p_raw, p_data,
                   result, graph_vars, caller_vars>>

\* np.zeros(node_data.shape)
Zeros(df) == [rc \in Cells(df) |-> 0]

\* _SAFE lines 69-89: neighborhoods is never None here, SAFE_batch passed it
Observe ==
    /\ pc = "observe"
    /\ node_data' = (IF args.shuffle_by = "sample" THEN transform_sn(data) ELSE data)
    /\ ops' = ops \cup {"neighborhood_score"}
                  \cup (IF args.shuffle_by = "sample" THEN {"transform_sn"} ELSE {})
    /\ neighborhood_scores' = neighborhood_score(node_data', neighborhoods)
    /\ neighborhood_enrichments' = Zeros(node_data')
    /\ neighborhood_decline' = Zeros(node_data')
    /\ equal_trials' = Zeros(node_data')
    /\ trials' = 0
    /\ pc' = "loop"
    /\ UNCHANGED <<calls, args, neighborhoods, data, p_raw, p_data, result,
                   error, graph_vars, caller_vars>>

\* a slip: the strict comparison
EnrichHitStrict(p, o) == RLt(o, p)

\* p_neighborhood_scores >= neighborhood_scores
EnrichHit(p, o) == RLe(o, p)
\* p_neighborhood_scores <= neighborhood_scores
DeclineHit(p, o) == RLe(p, o)

\* the permuted score equalled the observed one
SameScore(p, o) == p = o

\* the boolean masks of lines 96-97, as the sets of cells where they hold
EnrichMask(p_scores, observed) ==
    {rc \in Cells(observed) : EnrichHit(p_scores.v[rc], observed.v[rc])}
DeclineMask(p_scores, observed) ==
    {rc \in Cells(observed) : DeclineHit(p_scores.v[rc], observed.v[rc])}
EqualMask(p_scores, observed) ==
    {rc \in Cells(observed) : SameScore(p_scores.v[rc], observed.v[rc])}

\* counts[mask] += 1
Counted(counts, mask) ==
    [rc \in DOMAIN counts |-> counts[rc] + (IF rc \in mask THEN 1 ELSE 0)]

\* a slip: the columns are permuted in the caller's table, without the copy
DataPermutedInPlace(table, permuted) == permuted

\* _permutation line 18: p_data = data.copy(deep=True); the apply works on the
\* copy, and the caller's table is what it was
DataAfterPermutation(table, permuted) == table

\* one iteration of the loop, _SAFE lines 91-97
Trial ==
    /\ pc = "loop"
    /\ trials < args.n_iter
    /\ \E permuted \in PermutedTables(data) :
          /\ p_raw' = permuted
          /\ p_data' = AfterPermute(permuted, args.shuffle_by)
          /\ data' = DataAfterPermutation(data, permuted)
    /\ LET p_neighborhood_scores == neighborhood_score(p_data', neighborhoods)
       IN  /\ neighborhood_enrichments' =
                 Counted(neighborhood_enrichments,
                         EnrichMask(p_neighborhood_scores, neighborhood_scores))
           /\ neighborhood_decline' =
                 Counted(neighborhood_decline,
                         DeclineMask(p_neighborhood_scores, neighborhood_scores))
           /\ equal_trials' =
                 Counted(equal_trials,
                         EqualMask(p_neighborhood_scores, neighborhood_scores))
    /\ trials' = trials + 1
    /\ ops' = ops \cup {"permutation", "neighborhood_score"}
                  \cup (IF args.shuffle_by = "sample" THEN {"transform_sn"} ELSE {})
    /\ UNCHANGED <<pc, calls, args, neighborhoods, node_data,
                   neighborhood_scores, result, error, graph_vars, caller_vars>>

\* pd.DataFrame(counts, index=list(graph.nodes), columns=list(data.columns))
CountFrame(counts) == Frame(nodes, data.columns, counts)

\* what _SAFE returns: one table, or the pair for mode both
Returned(m, e, d) ==
    IF m = "both" THEN <<e, d>> ELSE IF m = "enrich" THEN <<e>> ELSE <<d>>

\* the loop is over: _SAFE lines 99-115
Convert ==
    /\ pc = "loop"
    /\ trials = args.n_iter
    /\ result' = Returned(args.mode,
                          convertor(CountFrame(neighborhood_enrichments), args.n_iter),
                          convertor(CountFrame(neighborhood_decline), args.n_iter))
    /\ pc' = "record"
    /\ UNCHANGED <<calls, args, ops, neighborhoods, data, node_data,
                   neighborhood_scores, neighborhood_enrichments,
                   neighborhood_decline, trials, equal_trials, p_raw, p_data,
                   error, graph_vars, caller_vars>>

\* params = {...}: a new dict
NewParams == [shuffle_by |-> args.shuffle_by, agg_mode |-> "sum",
              n_iter |-> args.n_iter, data |-> EmptyFrame, mode |-> ""]

\* params['data'] = d; params['_mode'] = m, on the dict at address a
SetParams(h, a, d, m) == [h EXCEPT ![a].data = d, ![a].mode = m]

\* graph._add_safe(params): the list graph._SAFE gets the dict it is handed
add_safe(hist, a) == Append(hist, a)

\* record i of graph._SAFE as it reads now
Record(i) == heap[history[i]]

\* SAFE_batch lines 154-171, and the return: the locals are gone
RecordParams ==
    /\ pc = "record"
    /\ LET a == Len(heap) + 1
           h0 == Append(heap, NewParams)
       IN  IF args.mode = "both"
           THEN /\ heap' = SetParams(SetParams(h0, a, result[1], "enrich"),
                                     a, result[2], "decline")
                /\ history' = add_safe(add_safe(history, a), a)
           ELSE /\ heap' = SetParams(h0, a, result[1], args.mode)
                /\ history' = add_safe(history, a)
    /\ pc' = "done"
    /\ neighborhoods' = <<>>
    /\ data' = EmptyFrame
    /\ node_data' = EmptyFrame
    /\ neighborhood_scores' = EmptyFrame
    /\ neighborhood_enrichments' = <<>>
    /\ neighborhood_decline' = <<>>
    /\ trials' = 0
    /\ equal_trials' = <<>>
    /\ p_raw' = EmptyFrame
    /\ p_data' = EmptyFrame
    /\ UNCHANGED <<calls, args, ops, result, error, caller_vars>>

Next ==
    \/ Call
    \/ LookupNeighborhoods
    \/ VerifyMetadata
    \/ SafeEntry
    \/ Observe
    \/ Trial
    \/ Convert
    \/ RecordParams

Spec == Init /\ [][Next]_vars

(***************************************************************************)
(* Claims checked under Spec.                                              *)
(***************************************************************************)
InLoop == pc \in {"loop", "record"}

\* C1: after k trials of the permutation loop every cell of both count
\* matrices is in 0..k, the two counts of a cell sum to at least k, and the
\* sum exceeds k by exactly the number of trials whose permuted score
\* equalled the observed score (at the end of the loop k = n_iter).
C1_CountsBounded ==
    InLoop =>
        \A rc \in DOMAIN neighborhood_enrichments :
            /\ neighborhood_enrichments[rc] \in 0..trials
            /\ neighborhood_decline[rc] \in 0..trials
            /\ neighborhood_enrichments[rc] + neighborhood_decline[rc] >= trials
            /\ neighborhood_enrichments[rc] + neighborhood_decline[rc]
                   = trials + equal_trials[rc]

\* the loop has ended after two or more trials, with a cell counted twice in
\* some trial and a cell never counted twice
C1_Witness ==
    /\ pc = "loop"
    /\ trials = args.n_iter
    /\ trials >= 2
    /\ \E rc \in DOMAIN neighborhood_enrichments :
          neighborhood_enrichments[rc] + neighborhood_decline[rc] > trials
    /\ \E rc \in DOMAIN neighborhood_enrichments :
          /\ neighborhood_enrichments[rc] + neighborhood_decline[rc] = trials
          /\ neighborhood_enrichments[rc] > 0
          /\ neighborhood_decline[rc] > 0

\* C3: a SAFE_batch call with a mode that is none of enrich, decline, both
\* fails with the invalid-mode error before any collaborator operation
\* (neighborhood lookup, metadata verification, transform, aggregation,
\* permutation) is performed and without a record appended to the history.
C3_InvalidModeFailsBeforeAnyWork ==
    (pc = "raised" /\ error = "SyntaxError") => (ops = {} /\ history = <<>>)

\* C6: with n_iter = 0 every cell of every returned score table is the
\* number 0 (min_p = 1), not nan.
C6_ZeroIterScoresAreZero ==
    (pc \in {"record", "done"} /\ args.n_iter = 0) =>
        \A i \in 1..Len(result) : \A rc \in Cells(result[i]) :
            /\ min_p_value(args.n_iter) = RInt(1)
            /\ ScoreIsZero(result[i].v[rc])

\* the values of column c of a table, with multiplicity: how often x occurs
Occurs(df, c, x) == Cardinality({r \in 1..NRows(df) : df.v[<<r, c>>] = x})
ColumnValues(df, c) == {df.v[<<r, c>>] : r \in 1..NRows(df)}

\* C10: the table a trial's apply produces (the returned table for shuffle
\* axis node, the sample-space table before transform_sn for axis sample) has
\* the row labels and column names of the input, and each of its columns
\* holds the same values with the same multiplicities as that column of the
\* input.
C10_ColumnMultisetsKept ==
    (pc = "loop" /\ trials > 0) =>
        /\ p_raw.index = data.index
        /\ p_raw.columns = data.columns
        /\ DOMAIN p_raw.v = DOMAIN data.v
        /\ \A c \in 1..NCols(data) :
              \A x \in ColumnValues(data, c) \cup ColumnValues(p_raw, c) :
                  Occurs(p_raw, c, x) = Occurs(data, c, x)
        /\ args.shuffle_by = "node" => p_data = p_raw
        /\ args.shuffle_by = "sample" => p_data = transform_sn(p_raw)

\* a trial whose table differs from the input and is no joint row permutation
\* of it: the columns were permuted differently
C10_Witness ==
    /\ pc = "loop"
    /\ trials > 0
    /\ p_raw # data
    /\ \A sigma \in Perms(NRows(data)) :
          \E rc \in Cells(data) : p_raw.v[rc] # data.v[<<sigma[rc[1]], rc[2]>>]

\* the neighborhoods and the observed scores of the running call, computed
\* from its arguments
CallNeighborhoods ==
    IF args.neighborhoods_given THEN own_neighborhoods ELSE get_neighborhoods
CallObserved ==
    neighborhood_score(IF args.shuffle_by = "sample"
                       THEN transform_sn(args.metadata) ELSE args.metadata,
                       CallNeighborhoods)
\* the scores of a trial whose apply produced the table permuted, computed
\* from the call's arguments
TrialScores(permuted) ==
    neighborhood_score(AfterPermute(permuted, args.shuffle_by), CallNeighborhoods)

\* C11: every trial of the permutation loop leaves the raw metadata passed
\* in, the observed neighborhood scores and the neighborhoods as they were;
\* the table it permutes is the raw metadata of the call (sample-space for
\* shuffle axis sample): every column of the permuted table is that column of
\* the call's metadata under a permutation of its rows, whatever the earlier
\* trials drew; and what it adds to the two count matrices is fixed by its
\* own draw and the call's arguments.
C11_TrialsReadOnlyOriginal ==
    [][(pc = "loop" /\ trials' = trials + 1) =>
          /\ data = args.metadata
          /\ data' = data
          /\ neighborhoods' = neighborhoods
          /\ neighborhoods = CallNeighborhoods
          /\ neighborhood_scores' = neighborhood_scores
          /\ neighborhood_scores = CallObserved
          /\ p_raw'.index = args.metadata.index
          /\ p_raw'.columns = args.metadata.columns
          /\ DOMAIN p_raw'.v = Cells(args.metadata)
          /\ \A c \in 1..NCols(args.metadata) :
                \E perm \in RowPerms[NRows(args.metadata)] :
                    \A r \in 1..NRows(args.metadata) :
                        p_raw'.v[<<r, c>>] = args.metadata.v[<<perm[r], c>>]
          /\ neighborhood_enrichments' =
                 Counted(neighborhood_enrichments,
                         EnrichMask(TrialScores(p_raw'), CallObserved))
          /\ neighborhood_decline' =
                 Counted(neighborhood_decline,
                         DeclineMask(TrialScores(p_raw'), CallObserved))]_vars

\* two trials on sample-space metadata have run, the last on a table other
\* than the input, and a cell was counted by one of them only
C11_Witness ==
    /\ pc = "loop"
    /\ args.shuffle_by = "sample"
    /\ trials = 2
    /\ data = args.metadata
    /\ p_raw # data
    /\ NRows(p_raw) = Len(samples)
    /\ \E rc \in DOMAIN neighborhood_enrichments :
          neighborhood_enrichments[rc] = 1

(***************************************************************************)
(* convertor as a function of any count table: the table is drawn, the     *)
(* function applied.                                                       *)
(***************************************************************************)
ConvColumns == <<"f1", "f2">>
\* the compared_count argument
ComparedCount == Frame(nodes, ConvColumns, neighborhood_enrichments)

InitConvertor ==
    /\ \E n \in 0..MaxIter :
          /\ args = [NoArgs EXCEPT !.n_iter = n]
          /\ neighborhood_enrichments \in
                 [(1..Len(nodes)) \X (1..Len(ConvColumns)) -> 0..n]
    /\ pc = "convertor"
    /\ calls = 0
    /\ ops = {}
    /\ neighborhoods = <<>>
    /\ data = EmptyFrame
    /\ node_data = EmptyFrame
    /\ neighborhood_scores = EmptyFrame
    /\ neighborhood_decline = <<>>
    /\ trials = 0
    /\ equal_trials = <<>>
    /\ p_raw = EmptyFrame
    /\ p_data = EmptyFrame
    /\ result = <<>>
    /\ error = ""
    /\ heap = <<>>
    /\ history = <<>>
    /\ sig = NoSig
    /\ sample_metadata = EmptyFrame
    /\ cli = NoCli

ApplyConvertor ==
    /\ pc = "convertor"
    /\ result' = <<convertor(ComparedCount, args.n_iter)>>
    /\ pc' = "converted"
    /\ UNCHANGED <<calls, args, ops, neighborhoods, data, node_data,
                   neighborhood_scores, neighborhood_enrichments,
                   neighborhood_decline, trials, equal_trials, p_raw, p_data,
                   error, graph_vars, caller_vars>>

SpecConvertor == InitConvertor /\ [][ApplyConvertor]_vars

\* C2: for n_iter >= 1 and any count table with cells in 0..n_iter, every
\* cell's corrected p-value is a number in [min_p, 1] with
\* min_p = 1/(n_iter+1), its SAFE score is in [0, 1], and the score is 1
\* exactly when the corrected p-value is min_p.
C2_ScoreInUnitInterval ==
    (pc = "converted" /\ args.n_iter >= 1) =>
        \A rc \in Cells(ComparedCount) :
            LET s == result[1].v[rc]
                cp == CorrectedP(ComparedCount, args.n_iter).v[rc]
                mp == min_p_value(args.n_iter)
            IN  /\ mp = <<1, args.n_iter + 1>>
                /\ cp.k = "num"
                /\ RLe(mp, cp.q)
                /\ RLe(cp.q, RInt(1))
                /\ ScoreAtLeastZero(s)
                /\ ScoreAtMostOne(s)
                /\ ScoreIsOne(s) <=> (cp.q = mp)

\* a converted table with a column of scores 1 and a column holding a score
\* strictly between 0 and 1 and a score 0
C2_Witness ==
    /\ pc = "converted"
    /\ args.n_iter >= 2
    /\ \A r \in 1..Len(nodes) : ScoreIsOne(result[1].v[<<r, 1>>])
    /\ \E r \in 1..Len(nodes) :
          /\ ~ScoreIsOne(result[1].v[<<r, 2>>])
          /\ ~ScoreIsZero(result[1].v[<<r, 2>>])
    /\ \E r \in 1..Len(nodes) : ScoreIsZero(result[1].v[<<r, 2>>])

(***************************************************************************)
(* get_significant_nodes (SAFE.py 174-212).                                *)
(***************************************************************************)
\* round(10^4 * log10(n)) for n = 1..100
Log10e4 ==
    <<
      0, 3010, 4771, 6021, 6990, 7782, 8451, 9031, 9542, 10000,
      10414, 10792, 11139, 11461, 11761, 12041, 12304, 12553, 12788, 13010,
      13222, 13424, 13617, 13802, 13979, 14150, 14314, 14472, 14624, 14771,
      14914, 15051, 15185, 15315, 15441, 15563, 15682, 15798, 15911, 16021,
      16128, 16232, 16335, 16435, 16532, 16628, 16721, 16812, 16902, 16990,
      17076, 17160, 17243, 17324, 17404, 17482, 17559, 17634, 17709, 17782,
      17853, 17924, 17993, 18062, 18129, 18195, 18261, 18325, 18388, 18451,
      18513, 18573, 18633, 18692, 18751, 18808, 18865, 18921, 18976, 19031,
      19085, 19138, 19191, 19243, 19294, 19345, 19395, 19445, 19494, 19542,
      19590, 19638, 19685, 19731, 19777, 19823, 19868, 19912, 19956, 20000
    >>
\* -log10 of a rational in (0, 1] with numerator and denominator in 1..100,
\* to four decimals
NegLog(x) == Log10e4[x[2]] - Log10e4[x[1]]

\* log10(p1)/log10(b1) >= log10(p2)/log10(b2) for p's in (0, 1] and b's in
\* (0, 1): exactly when the bases are equal, else to four decimals
LogGeq(p1, b1, p2, b2) ==
    IF b1 = b2 THEN RLe(p1, p2)
    ELSE NegLog(p1) * NegLog(b2) >= NegLog(p2) * NegLog(b1)

\* score >= threshold on floats: False when either is nan
ScoreGeq(s, t) ==
    CASE s.k = "nan" \/ t.k = "nan" -> FALSE
      [] t.k = "ninf" -> TRUE
      [] s.k = "ninf" -> FALSE
      [] OTHER -> LogGeq(s.p, s.b, t.p, t.b)

NaNScore == [k |-> "nan", p |-> RInt(1), b |-> RInt(1)]

\* tmap.tda.utils.unify_data: a table stays the table it is
unify_data(df) == df

\* lines 191-192: transpose when the row count is not the node count
OrientToNodes(df) == IF NRows(df) # Len(nodes) THEN Transpose(df) ELSE df

None == -1
\* the default pvalue of get_significant_nodes, 0.05
DefaultPvalue == <<1, 20>>
\* the default p_value of get_SAFE_summary, 0.01
DefaultSummaryPvalue == <<1, 100>>

\* a slip: the first record of the history is read
HistoryNIterFirst == Record(1).n_iter

\* graph._SAFE[-1]['n_iter']
HistoryNIter == Record(Len(history)).n_iter

\* line 195: the history is read only when n_iter is None
ReadsHistory(n_iter) == n_iter = None
ResolveNIter(n_iter) == IF ReadsHistory(n_iter) THEN HistoryNIter ELSE n_iter

\* line 197: np.log10(pvalue) / np.log10(min_p_value)
Threshold(pvalue, n) == LogRatio(FNum(pvalue), min_p_value(n))

\* line 199: safe_scores.where(safe_scores >= SAFE_pvalue).to_dict(), the dict
\* {column label: {row label: score or nan}}
FilterDict(df, SAFE_pvalue) ==
    [f \in Range(df.columns) |->
        [n \in Range(df.index) |->
            LET s == df.v[<<PosOf(df.index, n), PosOf(df.columns, f)>>]
            IN  IF ScoreGeq(s, SAFE_pvalue) THEN s ELSE NaNScore]]

\* pd.isnull of a row label: a label is never null
IsNullLabel(v) == FALSE

\* lines 201-203: "for v in vlist" walks the keys of the inner dict, the row
\* labels, and keeps those that are not null
SignificantCentroides(filter_dict) ==
    [f \in DOMAIN filter_dict |->
        {v \in DOMAIN filter_dict[f] : ~IsNullLabel(v)}]

\* lines 205-207: the union of the neighborhoods of a feature's centroids
SignificantNodes(centroides, nbs) ==
    [f \in DOMAIN centroides |-> UNION {nbs[n] : n \in centroides[f]}]

\* the whole function: its outcome for a table, a pvalue and an n_iter
\* argument.  Errors in the order the code meets them.
get_significant_nodes(safe_scores, pvalue, n_iter) ==
    LET nbs == get_neighborhoods
        df == OrientToNodes(unify_data(safe_scores))
        n == ResolveNIter(n_iter)
        centroides == SignificantCentroides(FilterDict(df, Threshold(pvalue, n)))
        base == [fn |-> "get_significant_nodes", safe_scores |-> safe_scores,
                 err |-> "", n_iter_arg |-> n_iter,
                 n_iter |-> -1, read_history |-> FALSE, min_p |-> RInt(0),
                 detail |-> [centroides |-> <<>>, nodes |-> <<>>, summary |-> <<>>]]
    IN  IF NRows(df) # Len(nodes)
        THEN [base EXCEPT !.err = "AssertionError"]
        ELSE IF ReadsHistory(n_iter) /\ history = <<>>
        THEN [base EXCEPT !.err = "IndexError", !.read_history = TRUE]
        ELSE IF \E f \in DOMAIN centroides : centroides[f] \ DOMAIN nbs # {}
        THEN [base EXCEPT !.err = "KeyError", !.n_iter = n,
                          !.read_history = ReadsHistory(n_iter),
                          !.min_p = min_p_value(n)]
        ELSE [base EXCEPT !.n_iter = n,
                          !.read_history = ReadsHistory(n_iter),
                          !.min_p = min_p_value(n),
                          !.detail = [centroides |-> centroides,
                                      nodes |-> SignificantNodes(centroides, nbs),
                                      summary |-> <<>>]]

(***************************************************************************)
(* get_SAFE_summary (SAFE.py 228-298).                                     *)
(***************************************************************************)
RECURSIVE RProd(_, _)
\* product of f[i] over the finite set S
RProd(f, S) ==
    IF S = {} THEN RInt(1)
    ELSE LET i == CHOOSE j \in S : TRUE
         IN  RMul(f[i], RProd(f, S \ {i}))

\* the sum of the scores of row r of df over the columns cols (positions):
\* pandas skips nan cells, and the sum of log10(p_i)/log10(b) over one base b
\* is log10(product of the p_i)/log10(b), kept as that product
ScoreSum(df, r, cols) ==
    LET num == {c \in cols : df.v[<<r, c>>].k = "num"}
        ps == [c \in num |-> df.v[<<r, c>>].p]
    IN  RProd(ps, num)

\* _safe_div of lines 280-284 on two score sums over one base, kept as
\* products xp and yp: y == 0.0 iff yp = 1, else x/y = log10(xp)/log10(yp)
SafeDivScores(xp, yp) ==
    IF yp = RInt(1) THEN NaNScore ELSE [k |-> "num", p |-> xp, b |-> yp]

\* lines 275-276: np.sum(metadata.loc[samples, feature]) / feature_total[feature]
AbundanceRatio(metadata, sample_set, f) ==
    LET c == PosOf(metadata.columns, f)
        col == [r \in 1..NRows(metadata) |-> metadata.v[<<r, c>>]]
        rows == {PosOf(metadata.index, x) : x \in sample_set}
    IN  NumpyDiv(RSum(col, rows), RSum(col, 1..NRows(metadata)))

\* lines 239-240: transpose when the row count is not the feature count
OrientToFeatures(df, metadata) ==
    IF NRows(df) # NCols(metadata) THEN Transpose(df) ELSE df

\* the whole function (_output_details False): its outcome.  Errors in the
\* order the code meets them.
get_SAFE_summary(metadata, safe_scores, n_iter, p_value) ==
    LET ss == OrientToFeatures(safe_scores, metadata)
        feature_names == Range(ss.index)
        got == get_significant_nodes(ss, p_value, n_iter)
        centroides == got.detail.centroides
        sig_nodes == got.detail.nodes
        sig_samples == [f \in DOMAIN sig_nodes |-> node2sample(sig_nodes[f])]
        base == [got EXCEPT !.fn = "get_SAFE_summary", !.safe_scores = safe_scores]
        row(f) ==
            LET r == PosOf(ss.index, f)
                total == ScoreSum(ss, r, 1..NCols(ss))
                enriched == ScoreSum(ss, r, {PosOf(ss.columns, n) : n \in centroides[f]})
            IN  [total_score |-> total,
                 enriched_nodes |-> Cardinality(sig_nodes[f]),
                 enriched_samples |-> Cardinality(sig_samples[f]),
                 enriched_score |-> enriched,
                 abundance_ratio |-> AbundanceRatio(metadata, sig_samples[f], f),
                 safe_ratio |-> SafeDivScores(enriched, total)]
    IN  IF NRows(ss) # NCols(metadata)
        THEN [NoSig EXCEPT !.fn = "get_SAFE_summary", !.err = "AssertionError",
                           !.safe_scores = safe_scores, !.n_iter_arg = n_iter]
        ELSE IF got.err # "" THEN base
        ELSE IF \/ feature_names \ DOMAIN centroides # {}
                \/ \E f \in feature_names : centroides[f] \ Range(ss.columns) # {}
                \/ feature_names \ Range(metadata.columns) # {}
                \/ \E f \in feature_names : sig_samples[f] \ Range(metadata.index) # {}
        THEN [base EXCEPT !.err = "KeyError",
                          !.detail = [centroides |-> <<>>, nodes |-> <<>>,
                                      summary |-> <<>>]]
        ELSE [base EXCEPT !.detail.summary = [f \in feature_names |-> row(f)]]

(***************************************************************************)
(* A caller's uses of the two functions between SAFE_batch calls.          *)
(***************************************************************************)
Idle == pc \in {"idle", "done", "raised"}

\* the score tables a caller passes: those last returned to it, in either
\* orientation
HeldScores == Range(result) \cup {Transpose(t) : t \in Range(result)}

NIterArguments == {None} \cup (0..MaxIter)

GetSignificantNodes ==
    /\ Idle
    /\ \E ss \in HeldScores, n \in NIterArguments :
          sig' = get_significant_nodes(ss, DefaultPvalue, n)
    /\ UNCHANGED <<batch_vars, graph_vars, sample_metadata, cli>>

GetSAFESummary ==
    /\ Idle
    /\ \E ss \in HeldScores, n \in NIterArguments :
          sig' = get_SAFE_summary(sample_metadata, ss, n, DefaultSummaryPvalue)
    /\ UNCHANGED <<batch_vars, graph_vars, sample_metadata, cli>>

(***************************************************************************)
(* Several SAFE_batch calls on one graph, with the two functions called    *)
(* between them.                                                           *)
(***************************************************************************)
\* sample-space metadata with the one feature of MetaNode1
MetaSample1 ==
    Frame(samples, <<"f1">>,
          [rc \in (1..4) \X (1..1) |-> RInt(1)])

InitHistory ==
    /\ InitBatch
    /\ heap = <<>>
    /\ history = <<>>
    /\ sig = NoSig
    /\ sample_metadata = MetaSample1
    /\ cli = NoCli

CallAgain ==
    /\ Idle
    /\ calls < MaxCalls
    /\ \E n \in 1..MaxIter, m \in {"enrich", "both", "other"} :
          StartCall(MetaNode1, n, "node", m, FALSE)

NextHistory ==
    \/ CallAgain
    \/ LookupNeighborhoods
    \/ VerifyMetadata
    \/ SafeEntry
    \/ Observe
    \/ Trial
    \/ Convert
    \/ RecordParams
    \/ GetSignificantNodes
    \/ GetSAFESummary

SpecHistory == InitHistory /\ [][NextHistory]_vars

(***************************************************************************)
(* The two functions on any score table: the table and the metadata are    *)
(* drawn, the functions applied.                                           *)
(***************************************************************************)
\* two or three features: fewer than and as many as the nodes
FeatureLists == {<<"f1", "f2">>, <<"f1", "f2", "f3">>}

One(b) == [k |-> "num", p |-> b, b |-> b]
Zero(b) == [k |-> "num", p |-> RInt(1), b |-> b]
\* the scores of one feature over the three nodes, for n_iter = 2
ScoreColumns ==
    LET b == min_p_value(2)
    IN  {Col3(One(b), One(b), One(b)), Col3(Zero(b), Zero(b), Zero(b)),
         Col3(One(b), Zero(b), One(b))}

Col4(a, b, c, d) ==
    [r \in 1..4 |-> IF r = 1 THEN a ELSE IF r = 2 THEN b ELSE IF r = 3 THEN c ELSE d]
\* the values of one feature over the four samples: total 0 with the values
\* of the clustered samples s1..s3 summing to 1, total 0 with those summing
\* to 0, and total 2
MetadataColumns ==
    {Col4(RInt(1), RInt(0), RInt(0), RInt(-1)),
     Col4(RInt(1), RInt(-1), RInt(0), RInt(0)),
     Col4(RInt(1), RInt(1), RInt(0), RInt(0))}

InitSummary ==
    /\ \E fs \in FeatureLists :
          /\ \E cols \in [1..Len(fs) -> ScoreColumns] :
                result = <<Frame(nodes, fs,
                                 [rc \in (1..Len(nodes)) \X (1..Len(fs)) |->
                                     cols[rc[2]][rc[1]]])>>
          /\ \E cols \in [1..Len(fs) -> MetadataColumns] :
                sample_metadata =
                    Frame(samples, fs,
                          [rc \in (1..Len(samples)) \X (1..Len(fs)) |->
                              cols[rc[2]][rc[1]]])
    /\ pc = "idle"
    /\ calls = 0
    /\ args = NoArgs
    /\ ops = {}
    /\ neighborhoods = <<>>
    /\ data = EmptyFrame
    /\ node_data = EmptyFrame
    /\ neighborhood_scores = EmptyFrame
    /\ neighborhood_enrichments = <<>>
    /\ neighborhood_decline = <<>>
    /\ trials = 0
    /\ equal_trials = <<>>
    /\ p_raw = EmptyFrame
    /\ p_data = EmptyFrame
    /\ error = ""
    /\ heap = <<>>
    /\ history = <<>>
    /\ sig = NoSig
    /\ cli = NoCli

NextSummary ==
    \/ GetSignificantNodes
    \/ GetSAFESummary

SpecSummary == InitSummary /\ [][NextSummary]_vars

(***************************************************************************)
(* Claims about the history and the two functions.                         *)
(***************************************************************************)
\* C4: a successful SAFE_batch call on a fresh graph leaves one record per
\* mode in the history: for enrich or decline one record with that mode and
\* the returned table; for both two records, the first with mode enrich and
\* the enrichment table, the second with mode decline and the decline table,
\* both still reading so after the call.
C4_OneRecordPerMode ==
    pc = "done" =>
        IF args.mode = "both"
        THEN /\ Len(history) = 2
             /\ Record(1).mode = "enrich"
             /\ Record(1).data = result[1]
             /\ Record(2).mode = "decline"
             /\ Record(2).data = result[2]
        ELSE /\ Len(history) = 1
             /\ Record(1).mode = args.mode
             /\ Record(1).data = result[1]

Answered == sig.fn # "" /\ sig.err = ""

\* C5: a get_significant_nodes or get_SAFE_summary call that is given no
\* n_iter takes it from the most recently appended record of the history; one
\* that is given n_iter uses it and does not read the history; either way
\* min_p = 1/(n_iter+1).
C5_NIterOfLatestRecord ==
    Answered =>
        /\ sig.n_iter_arg = None =>
              /\ history # <<>>
              /\ sig.read_history
              /\ sig.n_iter = Record(Len(history)).n_iter
        /\ sig.n_iter_arg # None =>
              /\ ~sig.read_history
              /\ sig.n_iter = sig.n_iter_arg
        /\ sig.min_p = <<1, sig.n_iter + 1>>

\* a call without n_iter on a history whose latest record has another n_iter
\* than its first
C5_Witness ==
    /\ Answered
    /\ sig.n_iter_arg = None
    /\ Len(history) >= 2
    /\ Record(1).n_iter # Record(Len(history)).n_iter

\* the sum of a feature's metadata values over all samples
FeatureTotal(f) ==
    LET c == PosOf(sample_metadata.columns, f)
    IN  RSum([r \in 1..NRows(sample_metadata) |-> sample_metadata.v[<<r, c>>]],
             1..NRows(sample_metadata))

\* C7: get_SAFE_summary raises nothing on account of a feature whose metadata
\* values sum to zero, and the summary it returns has a row for the feature
\* whose enrichment abundance ratio is nan.
C7_ZeroTotalRatioIsNaN ==
    (sig.fn = "get_SAFE_summary" /\ sig.err = "") =>
        \A f \in Range(sample_metadata.columns) :
            FeatureTotal(f) = RInt(0) =>
                /\ f \in DOMAIN sig.detail.summary
                /\ sig.detail.summary[f].abundance_ratio.k = "nan"

\* the outcome of the same call with the table transposed
Transposed ==
    IF sig.fn = "get_significant_nodes"
    THEN get_significant_nodes(Transpose(sig.safe_scores), DefaultPvalue,
                               sig.n_iter_arg)
    ELSE get_SAFE_summary(sample_metadata, Transpose(sig.safe_scores),
                          sig.n_iter_arg, DefaultSummaryPvalue)

SameAnswer(a, b) == a.err = "" /\ b.err = "" /\ a.detail = b.detail

\* a call with an n_iter on a nodes x features or features x nodes table
Oriented == sig.fn # "" /\ sig.n_iter_arg # None

\* C8: a call of either function with a nodes x features or features x nodes
\* table answers, and answers the same with the table transposed, also when
\* there are as many features as nodes.
C8_AnyOrientation == Oriented => SameAnswer(sig, Transposed)

(***************************************************************************)
(* The command line (SAFE_analysis.py 78-127).                             *)
(***************************************************************************)
\* largest number of metadata files on the command line
MaxFiles == 3
\* the row counts a metadata file may have
FileRows == {3, 4}

InitCLI ==
    /\ InitBatch
    /\ heap = <<>>
    /\ history = <<>>
    /\ sig = NoSig
    /\ sample_metadata = EmptyFrame
    /\ \E k \in 0..MaxFiles, m \in CallerModes, r \in BOOLEAN :
          \E rows \in [1..k -> FileRows] :
              cli = [NoCli EXCEPT !.pc = "preprocess", !.rows = rows,
                                  !.mode = m, !.raw = r]

\* line 10: len(set([_.shape[0] for _ in datas])) != 1
RowsMismatch(rows) == Cardinality(Range(rows)) # 1

\* line 116: metadata, cols_dict = preprocess_metadata(...).  On a mismatch
\* the function logs and returns None (lines 11-12), and unpacking None into
\* two names raises TypeError
PreprocessMetadata ==
    /\ cli.pc = "preprocess"
    /\ IF RowsMismatch(cli.rows)
       THEN cli' = [cli EXCEPT !.pc = "exit", !.logged = TRUE, !.err = "TypeError"]
       ELSE cli' = [cli EXCEPT !.pc = "main"]
    /\ UNCHANGED <<batch_vars, graph_vars, sig, sample_metadata>>

\* lines 117-127: main logs, reads the graph and calls generate_SAFE_score,
\* whose call SAFE_batch(graph, meta_data=metadata, ...) (lines 26, 37) gives
\* no value to the parameter metadata of SAFE_batch (SAFE.py 118): TypeError
\* before SAFE_batch runs
Main ==
    /\ cli.pc = "main"
    /\ cli' = [cli EXCEPT !.pc = "exit",
                          !.invoked = {"main", "read_graph", "generate_SAFE_score"},
                          !.err = "TypeError"]
    /\ UNCHANGED <<batch_vars, graph_vars, sig, sample_metadata>>

NextCLI ==
    \/ PreprocessMetadata
    \/ Main

SpecCLI == InitCLI /\ [][NextCLI]_vars

\* C9: when the metadata files differ in row count the run ends without an
\* exception, having invoked no SAFE computation and written no output file,
\* the mismatch having been reported.
C9_MismatchEndsNormally ==
    (cli.pc = "exit" /\ RowsMismatch(cli.rows)) =>
        /\ cli.logged
        /\ cli.err = ""
        /\ cli.invoked = {}
        /\ cli.written = {}

====
